---- MODULE Spec2Model ----
(***************************************************************************)
(* A model of the pipeline task node renderer, TaskNode.tsx.               *)
(*                                                                         *)
(* One mounted component instance is modelled: its props, its hook state   *)
(* (the six measured sizes kept by useSize, the value and dependency list  *)
(* kept by useMemo, the dependency list kept by useEffect), the tree the   *)
(* last render emitted, and the graph objects it reads and writes (the     *)
(* node's bounds, the graph's details level and scale, the data of the     *)
(* node's outgoing edges, the anchors it registers).                       *)
(*                                                                         *)
(* Lengths computed by the layout pass are held in QUARTER pixels, so that *)
(* paddingX / 2, statusIconSize / 4 and iconWidth * 0.75 are exact         *)
(* integers; props and measured sizes are in whole pixels.                 *)
(***************************************************************************)
EXTENDS Integers, FiniteSets, Sequences, TLC

VARIABLES
    phase,          \* "unmounted" | "mounted" | "failed"
    error,          \* message of the error the last render threw, or "none"
    element,        \* the GraphElement: [kind, width, label]
    graph,          \* the graph: [detailsLevel, scale], scale a fraction
    props,          \* the props TaskNodeInner was last rendered with
    sizes,          \* useSize state: text, status, lead, badge, action, context
    memo,           \* useMemo state of the layout pass: [valid, deps, value]
    effectDeps,     \* useEffect state of the indent effect: [valid, deps]
    out,            \* what the last render emitted
    pendingRefs,    \* measured elements whose ref callback the commit calls
    edgeData,       \* edge -> data of each outgoing edge of the node
    preData,        \* history: the data the last effect run found on each
                    \* edge, less its indent entry
    lastEffect,     \* history: the last step ran the indent effect
    anchors         \* anchors registered by this instance

vars == <<phase, error, element, graph, props, sizes, memo, effectDeps, out,
          pendingRefs, edgeData, preData, lastEffect, anchors>>

----------------------------------------------------------------------------
(* Bounds of the model *)

\* measured widths are drawn from 0 .. MaxWidth
MaxWidth == 1
\* node bounds widths are drawn from 40, 50, ..., 40 + 10 * MaxBoundsSteps
MaxBoundsSteps == 1
\* in SpecMemo, at most this many props differ from their defaults at a time
MaxChanged == 2

----------------------------------------------------------------------------
(* Program constants and value encodings *)

STATUS_ICON_SIZE == 16

Undefined == "undefined"
Truthy(x) == x # Undefined

\* ScaleDetailsLevel
DetailsLevels == {"high", "medium", "low"}

\* a useSize value: undefined until the element has been measured
NoSize == [measured |-> FALSE, width |-> 0, height |-> 0]
Size(w, h) == [measured |-> TRUE, width |-> w, height |-> h]
\* getBBox: the label's width varies with its text; an icon, the badge and
\* the menu affordance have the size their one content gives them
Widths == 0 .. MaxWidth
TextSizes == {Size(w, 10) : w \in Widths}
IconSizes == {Size(2, 8)}
BBoxes(m) == IF m = "text" THEN TextSizes ELSE IconSizes
NoSizes == [text |-> NoSize, status |-> NoSize, lead |-> NoSize,
            badge |-> NoSize, action |-> NoSize, context |-> NoSize]
Measurables == {"text", "status", "lead", "badge", "action", "context"}

\* hiddenDetailsShownStatuses: undefined, null or an array of statuses
HdssUndefined == [kind |-> "undefined", items |-> {}]
HdssNull == [kind |-> "null", items |-> {}]
HdssArray(S) == [kind |-> "array", items |-> S]
HdssDefault == HdssArray({"Failed", "FailedToStart", "Cancelled"})

\* the props of TaskNode with the defaults of its parameter list applied
DefaultProps ==
    [paddingX |-> 8, paddingY |-> 8,
     status |-> Undefined, statusIconSize |-> STATUS_ICON_SIZE,
     showStatusState |-> TRUE, scaleNode |-> FALSE,
     hideDetailsAtMedium |-> FALSE,
     hiddenDetailsShownStatuses |-> HdssUndefined,
     leadIcon |-> Undefined, badge |-> Undefined,
     badgeTooltip |-> Undefined, badgePopoverParams |-> Undefined,
     taskIconClass |-> Undefined, taskIcon |-> Undefined,
     taskIconPadding |-> 4,
     hasWhenExpression |-> FALSE, whenSize |-> 0, whenOffset |-> 0,
     actionIcon |-> Undefined, onContextMenu |-> Undefined,
     children |-> Undefined]

Fields == DOMAIN DefaultProps

----------------------------------------------------------------------------
(* The layout pass (the function given to React.useMemo) *)

textWidth(s) == IF s.text.measured THEN s.text.width ELSE 0
textHeight(s) == IF s.text.measured THEN s.text.height ELSE 0

ZeroLayout ==
    [height |-> 0, statusStartX |-> 0, textStartX |-> 0, actionStartX |-> 0,
     contextStartX |-> 0, pillWidth |-> 0, badgeStartX |-> 0, iconWidth |-> 0,
     iconStartX |-> 0, leadIconStartX |-> 0]

startX(p) == 4 * p.paddingX + 2 * p.paddingX

statusSpace(p, s) ==
    IF Truthy(p.status) /\ p.showStatusState /\ s.status.measured
    THEN 4 * s.status.width + 4 * p.paddingX ELSE 0

\* leadSize.width is read with no check that leadSize is defined: a TypeError
LayoutThrows(p, s) ==
    s.text.measured /\ Truthy(p.leadIcon) /\ ~s.lead.measured

leadIconSpace(p, s) ==
    IF Truthy(p.leadIcon) THEN 4 * s.lead.width + 4 * p.paddingX ELSE 0

textSpace_NegatedPadding(p, s) == 4 * textWidth(s) - 4 * p.paddingX
textSpace(p, s) == 4 * textWidth(s) + 4 * p.paddingX

badgeSpace(p, s) ==
    IF Truthy(p.badge) /\ s.badge.measured
    THEN 4 * s.badge.width + 4 * p.paddingX ELSE 0

actionSpace(p, s) ==
    IF Truthy(p.actionIcon) /\ s.action.measured
    THEN 4 * s.action.width + 4 * p.paddingX ELSE 0

contextSpace(p, s) ==
    IF Truthy(p.onContextMenu) /\ s.context.measured
    THEN 4 * s.context.width + 2 * p.paddingX ELSE 0

Layout(p, s) ==
    IF ~s.text.measured THEN ZeroLayout
    ELSE
      LET height == 4 * textHeight(s) + 2 * (4 * p.paddingY)
          iconWidth == IF Truthy(p.taskIconClass) \/ Truthy(p.taskIcon)
                       THEN height - 4 * p.taskIconPadding ELSE 0
          iconStartX == -((iconWidth * 3) \div 4)
          statusStartX == startX(p) - p.statusIconSize
          leadIconStartX == startX(p) + statusSpace(p, s)
          textStartX == leadIconStartX + leadIconSpace(p, s)
          badgeStartX == textStartX + textSpace(p, s)
          actionStartX == badgeStartX + badgeSpace(p, s)
          contextStartX == actionStartX + actionSpace(p, s)
          pillWidth == contextStartX + contextSpace(p, s) + 2 * p.paddingX
      IN [height |-> height, statusStartX |-> statusStartX,
          textStartX |-> textStartX, actionStartX |-> actionStartX,
          contextStartX |-> contextStartX, pillWidth |-> pillWidth,
          badgeStartX |-> badgeStartX, iconWidth |-> iconWidth,
          iconStartX |-> iconStartX, leadIconStartX |-> leadIconStartX]

\* the dependency list of the layout useMemo
layoutDeps_WithoutBadge(p, s) ==
    <<s.text, textHeight(s), textWidth(s), p.paddingY, p.paddingX,
      p.taskIconClass, p.taskIcon, p.taskIconPadding, p.statusIconSize,
      p.status, p.showStatusState, s.lead, p.leadIcon, s.status, s.badge,
      p.actionIcon, s.action, p.onContextMenu, s.context>>
layoutDeps(p, s) ==
    <<s.text, textHeight(s), textWidth(s), p.paddingY, p.paddingX,
      p.taskIconClass, p.taskIcon, p.taskIconPadding, p.statusIconSize,
      p.status, p.showStatusState, s.lead, p.leadIcon, s.status, s.badge,
      p.badge, p.actionIcon, s.action, p.onContextMenu, s.context>>

----------------------------------------------------------------------------
(* The graph objects *)

ElementKinds == {"node", "edge", "graph"}
isNode(el) == el.kind = "node"

Labels == {"build", "deploy"}
BoundsWidths == {40 + 10 * i : i \in 0 .. MaxBoundsSteps}
One == [num |-> 1, den |-> 1]
Scales == {[num |-> 1, den |-> 2], One, [num |-> 2, den |-> 1]}

\* the node's outgoing edges; an edge's data is undefined or a set of
\* <<key, value>> entries
Edges == {"e1", "e2"}
NoData == [defined |-> FALSE, entries |-> {}]
Data(kv) == [defined |-> TRUE, entries |-> kv]

NoAnchors ==
    [registered |-> FALSE, sourceLevel |-> "high", sourceSize |-> 0,
     targetOffset |-> 0]

----------------------------------------------------------------------------
(* TaskNode and the render of TaskNodeInner *)

NodeError == "TaskNode must be used only on Node elements"

TaskNodeThrows_NoGuard(el) == FALSE
TaskNodeThrows(el) == ~isNode(el)

\* the defaults TaskNode's parameter list applies to undefined props
TaskNodeDefaults(p) ==
    [p EXCEPT !.hiddenDetailsShownStatuses =
                  IF @.kind = "undefined" THEN HdssDefault ELSE @]

\* the arguments of the two useAnchor calls
Anchors(p, g) ==
    [registered |-> TRUE, sourceLevel |-> g.detailsLevel,
     sourceSize |-> p.statusIconSize + 4,
     targetOffset |-> IF p.hasWhenExpression THEN 0
                      ELSE p.whenSize + p.whenOffset]

\* the dependency list of each useSize, which decides when a mounted
\* element is measured again
sizeDeps(m, p, el) ==
    CASE m = "text" -> <<el.label>>
      [] m = "status" -> <<p.status, p.showStatusState, p.statusIconSize>>
      [] m = "lead" -> <<p.leadIcon>>
      [] m = "badge" -> <<p.badge>>
      [] m = "action" -> <<p.actionIcon, p.paddingX>>
      [] m = "context" -> <<p.onContextMenu, p.paddingX>>

badgeComponent_PopoverFirst(p) ==
    IF ~Truthy(p.badge) THEN "none"
    ELSE IF Truthy(p.badgePopoverParams) THEN "popover"
    ELSE IF Truthy(p.badgeTooltip) THEN "tooltip"
    ELSE "bare"
badgeComponent(p) ==
    IF ~Truthy(p.badge) THEN "none"
    ELSE IF Truthy(p.badgeTooltip) THEN "tooltip"
    ELSE IF Truthy(p.badgePopoverParams) THEN "popover"
    ELSE "bare"

\* the condition under which renderTask emits the collapsed form
hideDetails_AtEveryLevel(p, g) ==
    p.showStatusState /\ ~p.scaleNode /\ p.hideDetailsAtMedium
hideDetails(p, g) ==
    /\ p.showStatusState
    /\ ~p.scaleNode
    /\ p.hideDetailsAtMedium
    /\ g.detailsLevel # "high"

\* whether the collapsed form draws the status icon inside the circle
showHiddenStatusIcon_AnyStatus(p) == Truthy(p.status)
showHiddenStatusIcon(p) ==
    /\ Truthy(p.status)
    /\ \/ p.hiddenDetailsShownStatuses.kind = "null"
       \/ p.status \in p.hiddenDetailsShownStatuses.items

NoOutput ==
    [kind |-> "none", parts |-> {}, layout |-> ZeroLayout,
     badgeComponent |-> "none", radius2 |-> 0, upScale |-> One]

\* renderTask: the tree emitted, as the set of its parts.  radius2 is twice
\* statusBackgroundRadius
renderTask(p, g, s, layout) ==
    IF hideDetails(p, g)
    THEN [kind |-> "collapsed",
          parts |-> {"circle"} \cup
                    (IF showHiddenStatusIcon(p) THEN {"status"} ELSE {}),
          layout |-> layout,
          badgeComponent |-> "none",
          radius2 |-> p.statusIconSize + 2 * 4,
          upScale |-> [num |-> g.scale.den, den |-> g.scale.num]]
    ELSE [kind |-> "pill",
          parts |-> {"rect", "text"}
              \cup (IF Truthy(p.status) /\ p.showStatusState
                    THEN {"status"} ELSE {})
              \cup (IF Truthy(p.leadIcon) THEN {"lead"} ELSE {})
              \cup (IF Truthy(p.taskIconClass) \/ Truthy(p.taskIcon)
                    THEN {"taskIcon"} ELSE {})
              \cup (IF badgeComponent(p) # "none" THEN {"badge"} ELSE {})
              \cup (IF Truthy(p.actionIcon) THEN {"action"} ELSE {})
              \cup (IF s.text.measured /\ Truthy(p.onContextMenu)
                    THEN {"context"} ELSE {})
              \cup (IF Truthy(p.children) THEN {"children"} ELSE {}),
          layout |-> layout,
          badgeComponent |-> badgeComponent(p),
          radius2 |-> 0,
          upScale |-> One]

\* the elements carrying a measuring ref in an emitted tree
Measured(o) == IF o.kind = "pill" THEN o.parts \cap Measurables ELSE {}

\* the refs React calls when it commits tree o after tree prev: those of
\* newly mounted elements and those whose useSize dependencies changed
RefsFired(prev, prevP, prevEl, o, p, el) ==
    {m \in Measured(o) :
        \/ m \notin Measured(prev)
        \/ sizeDeps(m, prevP, prevEl) # sizeDeps(m, p, el)}

NoMemo == [valid |-> FALSE, deps |-> <<>>, value |-> ZeroLayout]
NoEffect == [valid |-> FALSE, deps |-> <<>>]

\* the dependency list of the indent effect (element never changes)
indentDeps(g, el, layout) == <<g.detailsLevel, layout.pillWidth, el.width>>

indentFor_IgnoringLevel(g, el, layout) == 4 * el.width - layout.pillWidth
indentFor(g, el, layout) ==
    IF g.detailsLevel = "high" THEN 4 * el.width - layout.pillWidth ELSE 0

\* edge.setData({ ...(data || {}), indent })
setIndent(d, indent) ==
    Data({kv \in d.entries : kv[1] # "indent"} \cup {<<"indent", indent>>})

OtherEntries(d) ==
    [defined |-> d.defined, entries |-> {kv \in d.entries : kv[1] # "indent"}]

\* the indent effect, run by the commit of a render whose values of the
\* effect's dependencies differ from those of the render before
IndentEffect(g, el, layout) ==
    /\ edgeData' = [e \in Edges |->
                       setIndent(edgeData[e], indentFor(g, el, layout))]
    /\ preData' = [e \in Edges |-> OtherEntries(edgeData[e])]
    /\ lastEffect' = TRUE

\* One render of TaskNodeInner with props rp (as passed to TaskNode),
\* element el, graph g and size state s, and its commit, effects included.
Render(rp, el, g, s) ==
    LET p == TaskNodeDefaults(rp)
        deps == layoutDeps(p, s)
        recompute == ~memo.valid \/ memo.deps # deps
        edeps(layout) == indentDeps(g, el, layout)
    IN /\ props' = rp
       /\ element' = el
       /\ graph' = g
       /\ IF recompute /\ LayoutThrows(p, s)
          THEN /\ phase' = "failed"
               /\ error' = "TypeError"
               /\ out' = NoOutput
               /\ sizes' = NoSizes
               /\ memo' = NoMemo
               /\ effectDeps' = NoEffect
               /\ pendingRefs' = {}
               /\ lastEffect' = FALSE
               /\ UNCHANGED <<anchors, edgeData, preData>>
          ELSE LET layout == IF recompute THEN Layout(p, s) ELSE memo.value
                   tree == renderTask(p, g, s, layout)
               IN /\ phase' = "mounted"
                  /\ error' = "none"
                  /\ sizes' = s
                  /\ memo' = [valid |-> TRUE, deps |-> deps, value |-> layout]
                  /\ anchors' = Anchors(p, g)
                  /\ out' = tree
                  /\ pendingRefs' =
                        RefsFired(out, TaskNodeDefaults(props), element,
                                  tree, p, el)
                  /\ effectDeps' = [valid |-> TRUE, deps |-> edeps(layout)]
                  /\ IF ~effectDeps.valid \/ effectDeps.deps # edeps(layout)
                     THEN IndentEffect(g, el, layout)
                     ELSE /\ lastEffect' = FALSE
                          /\ UNCHANGED <<edgeData, preData>>

----------------------------------------------------------------------------
(* Steps *)

\* React finishes a commit and its ref callbacks before the next render
Idle == phase = "mounted" /\ pendingRefs = {}

\* the parent renders <TaskNode element=... {...rp}/> for the first time
Mount(kind, rp) ==
    /\ phase = "unmounted"
    /\ LET el == [element EXCEPT !.kind = kind]
       IN IF TaskNodeThrows(el)
          THEN /\ phase' = "failed"
               /\ error' = NodeError
               /\ element' = el
               /\ lastEffect' = FALSE
               /\ UNCHANGED <<graph, props, sizes, memo, effectDeps, out,
                              pendingRefs, edgeData, preData, anchors>>
          ELSE Render(rp, el, graph, NoSizes)

\* the parent renders the node again with prop f changed to v
SetProp(f, v) ==
    /\ Idle
    /\ v # props[f]
    /\ Render([props EXCEPT ![f] = v], element, graph, sizes)

\* observables read by the render change: the observer renders again
SetLabel(l) ==
    /\ Idle
    /\ l # element.label
    /\ Render(props, [element EXCEPT !.label = l], graph, sizes)

SetBounds(w) ==
    /\ Idle
    /\ w # element.width
    /\ Render(props, [element EXCEPT !.width = w], graph, sizes)

SetDetailsLevel(l) ==
    /\ Idle
    /\ l # graph.detailsLevel
    /\ Render(props, element, [graph EXCEPT !.detailsLevel = l], sizes)

SetScale(sc) ==
    /\ Idle
    /\ sc # graph.scale
    /\ Render(props, element, [graph EXCEPT !.scale = sc], sizes)

\* the commit calls the pending ref callbacks: each measures its element
\* and sets its size when it differs; the batch causes one more render
CommitRefs ==
    /\ phase = "mounted"
    /\ pendingRefs # {}
    /\ \E m \in [pendingRefs -> TextSizes \cup IconSizes] :
          /\ \A k \in pendingRefs : m[k] \in BBoxes(k)
          /\ LET s == [k \in DOMAIN sizes |->
                          IF k \in pendingRefs THEN m[k] ELSE sizes[k]]
             IN IF s = sizes
                THEN /\ pendingRefs' = {}
                     /\ lastEffect' = FALSE
                     /\ UNCHANGED <<phase, error, element, graph, props,
                                    sizes, memo, effectDeps, out, edgeData,
                                    preData, anchors>>
                ELSE Render(props, element, graph, s)

\* the parent removes the node (or React drops it after a throw)
Remove ==
    /\ phase # "unmounted"
    /\ phase' = "unmounted"
    /\ error' = "none"
    /\ sizes' = NoSizes
    /\ memo' = NoMemo
    /\ effectDeps' = NoEffect
    /\ out' = NoOutput
    /\ pendingRefs' = {}
    /\ lastEffect' = FALSE
    /\ anchors' = NoAnchors
    /\ props' = DefaultProps
    /\ UNCHANGED <<element, graph, edgeData, preData>>

----------------------------------------------------------------------------
(* Specifications: the same steps over different ranges of inputs *)

InitWith(levels, scales, widths, datas) ==
    /\ phase = "unmounted"
    /\ error = "none"
    /\ element \in [kind : {"node"}, width : widths, label : {"build"}]
    /\ graph \in [detailsLevel : levels, scale : scales]
    /\ props = DefaultProps
    /\ sizes = NoSizes
    /\ memo = NoMemo
    /\ effectDeps = NoEffect
    /\ out = NoOutput
    /\ pendingRefs = {}
    /\ edgeData \in [Edges -> datas]
    /\ preData = [e \in Edges |-> OtherEntries(edgeData[e])]
    /\ lastEffect = FALSE
    /\ anchors = NoAnchors

\* the values each prop takes in a set P of props
DomainOf(P) == [f \in Fields |-> {q[f] : q \in P}]
Changed(rp) == Cardinality({f \in Fields : rp[f] # DefaultProps[f]})

MountFrom(P) == \E k \in ElementKinds, rp \in P : Mount(k, rp)
SetPropIn(D) == \E f \in Fields : \E v \in D[f] : SetProp(f, v)
SetPropWithin(D, n) ==
    \E f \in Fields : \E v \in D[f] :
        Changed([props EXCEPT ![f] = v]) <= n /\ SetProp(f, v)

\* Spec: the layout pass under every combination of optional sub-elements
LayoutProps ==
    [paddingX : {-4, 0, 8}, paddingY : {8},
     status : {Undefined, "Running"}, statusIconSize : {-8, STATUS_ICON_SIZE},
     showStatusState : {TRUE}, scaleNode : {FALSE},
     hideDetailsAtMedium : {FALSE},
     hiddenDetailsShownStatuses : {HdssUndefined},
     leadIcon : {Undefined, "icon"}, badge : {Undefined, "3/4"},
     badgeTooltip : {Undefined}, badgePopoverParams : {Undefined},
     taskIconClass : {Undefined}, taskIcon : {Undefined},
     taskIconPadding : {4},
     hasWhenExpression : {FALSE}, whenSize : {0}, whenOffset : {0},
     actionIcon : {Undefined, "icon"}, onContextMenu : {Undefined, "fn"},
     children : {Undefined}]
LayoutDomain == DomainOf(LayoutProps)

Init == InitWith({"high"}, {One}, {40}, {NoData})
Next ==
    \/ MountFrom(LayoutProps)
    \/ SetPropIn(LayoutDomain)
    \/ CommitRefs
    \/ Remove
Spec == Init /\ [][Next]_vars

\* SpecMemo: every input of the layout pass changes, a few at a time
MemoProps ==
    {rp \in
       [paddingX : {0, 8}, paddingY : {4, 8},
        status : {Undefined, "Running"},
        statusIconSize : {8, STATUS_ICON_SIZE},
        showStatusState : BOOLEAN, scaleNode : {FALSE},
        hideDetailsAtMedium : {FALSE},
        hiddenDetailsShownStatuses : {HdssUndefined},
        leadIcon : {Undefined, "icon"}, badge : {Undefined, "3/4"},
        badgeTooltip : {Undefined}, badgePopoverParams : {Undefined},
        taskIconClass : {Undefined, "icon-class"},
        taskIcon : {Undefined, "icon"},
        taskIconPadding : {2, 4},
        hasWhenExpression : {FALSE}, whenSize : {0}, whenOffset : {0},
        actionIcon : {Undefined, "icon"}, onContextMenu : {Undefined, "fn"},
        children : {Undefined}] : Changed(rp) <= MaxChanged}
MemoDomain == DomainOf(MemoProps)

NextMemo ==
    \/ MountFrom(MemoProps)
    \/ SetPropWithin(MemoDomain, MaxChanged)
    \/ CommitRefs
    \/ Remove
SpecMemo == Init /\ [][NextMemo]_vars

\* SpecCollapse: the props and observables that choose between the pill
\* and the collapsed form, with every optional detail of the pill present
CollapseProps ==
    [paddingX : {8}, paddingY : {8},
     status : {Undefined, "Failed", "Succeeded"},
     statusIconSize : {8, STATUS_ICON_SIZE},
     showStatusState : BOOLEAN, scaleNode : BOOLEAN,
     hideDetailsAtMedium : BOOLEAN,
     hiddenDetailsShownStatuses :
         {HdssUndefined, HdssNull, HdssArray({}), HdssArray({"Succeeded"})},
     leadIcon : {"icon"}, badge : {"3/4"},
     badgeTooltip : {Undefined}, badgePopoverParams : {Undefined},
     taskIconClass : {Undefined}, taskIcon : {"icon"},
     taskIconPadding : {4},
     hasWhenExpression : {FALSE}, whenSize : {0}, whenOffset : {0},
     actionIcon : {"icon"}, onContextMenu : {"fn"},
     children : {"child"}]
CollapseDomain == DomainOf(CollapseProps)

InitCollapse == InitWith(DetailsLevels, Scales, {40}, {NoData})
NextCollapse ==
    \/ MountFrom(CollapseProps)
    \/ SetPropIn(CollapseDomain)
    \/ \E l \in DetailsLevels : SetDetailsLevel(l)
    \/ \E sc \in Scales : SetScale(sc)
    \/ CommitRefs
    \/ Remove
SpecCollapse == InitCollapse /\ [][NextCollapse]_vars

\* SpecBadge: the badge and its two wrappers
BadgeProps ==
    [paddingX : {8}, paddingY : {8},
     status : {Undefined}, statusIconSize : {STATUS_ICON_SIZE},
     showStatusState : {TRUE}, scaleNode : {FALSE},
     hideDetailsAtMedium : BOOLEAN,
     hiddenDetailsShownStatuses : {HdssUndefined},
     leadIcon : {Undefined}, badge : {Undefined, "3/4"},
     badgeTooltip : {Undefined, "tip"},
     badgePopoverParams : {Undefined, "params"},
     taskIconClass : {Undefined}, taskIcon : {Undefined},
     taskIconPadding : {4},
     hasWhenExpression : {FALSE}, whenSize : {0}, whenOffset : {0},
     actionIcon : {Undefined}, onContextMenu : {Undefined},
     children : {Undefined}]
BadgeDomain == DomainOf(BadgeProps)

InitBadge == InitWith({"high", "medium"}, {One}, {40}, {NoData})
NextBadge ==
    \/ MountFrom(BadgeProps)
    \/ SetPropIn(BadgeDomain)
    \/ \E l \in {"high", "medium"} : SetDetailsLevel(l)
    \/ CommitRefs
    \/ Remove
SpecBadge == InitBadge /\ [][NextBadge]_vars

\* SpecIndent: what the indent effect reads (bounds, details level, pill
\* width, which follows the label's measured width) and the data it finds
\* on the edges
IndentProps ==
    [paddingX : {0, 8}, paddingY : {8},
     status : {Undefined}, statusIconSize : {STATUS_ICON_SIZE},
     showStatusState : {TRUE}, scaleNode : {FALSE},
     hideDetailsAtMedium : BOOLEAN,
     hiddenDetailsShownStatuses : {HdssUndefined},
     leadIcon : {Undefined}, badge : {Undefined, "3/4"},
     badgeTooltip : {Undefined}, badgePopoverParams : {Undefined},
     taskIconClass : {Undefined}, taskIcon : {Undefined},
     taskIconPadding : {4},
     hasWhenExpression : {FALSE}, whenSize : {0}, whenOffset : {0},
     actionIcon : {Undefined}, onContextMenu : {Undefined},
     children : {Undefined}]
IndentDomain == DomainOf(IndentProps)
EdgeDatas ==
    {NoData, Data({}), Data({<<"tag", 7>>}),
     Data({<<"indent", 5>>, <<"tag", 7>>})}

InitIndent == InitWith(DetailsLevels, {One}, BoundsWidths, EdgeDatas)
NextIndent ==
    \/ MountFrom(IndentProps)
    \/ SetPropIn(IndentDomain)
    \/ \E l \in DetailsLevels : SetDetailsLevel(l)
    \/ \E w \in BoundsWidths : SetBounds(w)
    \/ \E l \in Labels : SetLabel(l)
    \/ CommitRefs
    \/ Remove
SpecIndent == InitIndent /\ [][NextIndent]_vars

----------------------------------------------------------------------------
(* Properties *)

Mounted == phase = "mounted"
Optionals == {"status", "lead", "badge", "action", "context"}
WidthsNonNegative == \A m \in Measurables : sizes[m].width >= 0
Monotone(l) ==
    /\ l.statusStartX <= l.leadIconStartX
    /\ l.leadIconStartX <= l.textStartX
    /\ l.textStartX <= l.badgeStartX
    /\ l.badgeStartX <= l.actionStartX
    /\ l.actionStartX <= l.contextStartX
    /\ l.contextStartX <= l.pillWidth

\* C1: TaskNode throws 'TaskNode must be used only on Node elements' exactly
\* for the elements that are not Nodes; then TaskNodeInner is not rendered
\* (nothing emitted, no anchor registered, the indent effect never run); for
\* a Node TaskNodeInner is rendered and this error is not thrown.
C1_NodeGuard ==
    phase # "unmounted" =>
        /\ (error = NodeError) <=> ~isNode(element)
        /\ ~isNode(element) =>
              /\ phase = "failed"
              /\ out = NoOutput
              /\ ~anchors.registered
              /\ ~effectDeps.valid
              /\ ~lastEffect
              /\ sizes = NoSizes
        /\ (isNode(element) /\ Mounted) =>
              /\ anchors.registered
              /\ out.kind \in {"pill", "collapsed"}
C1_Witness ==
    phase = "failed" /\ error = NodeError /\ element.kind = "edge"

\* C2 as claimed: with non-negative measured widths alone, the offsets of
\* the layout pass increase from left to right.
C2_Original == (Mounted /\ WidthsNonNegative) => Monotone(out.layout)

\* C2 as amended: with non-negative measured widths and non-negative
\* paddingX and statusIconSize, statusStartX <= leadIconStartX <= textStartX
\* <= badgeStartX <= actionStartX <= contextStartX <= pillWidth, whichever
\* optional sub-elements are present.
C2_Monotone ==
    (/\ Mounted
     /\ WidthsNonNegative
     /\ props.paddingX >= 0
     /\ props.statusIconSize >= 0) => Monotone(out.layout)
C2_Witness ==
    /\ Mounted
    /\ props.paddingX > 0
    /\ props.statusIconSize > 0
    /\ \A m \in Measurables : sizes[m].measured
    /\ Optionals \subseteq out.parts
    /\ out.layout.statusStartX < out.layout.leadIconStartX
    /\ out.layout.contextStartX < out.layout.pillWidth

\* C3: when the indent effect has just run, every outgoing edge has
\* data.indent = bounds width - pillWidth at details level high and 0 at
\* every other level, and its other entries are the ones it had before
\* (only indent for an edge that had no data).
C3_Indent ==
    lastEffect =>
        \A e \in Edges :
            /\ edgeData[e].defined
            /\ {kv \in edgeData[e].entries : kv[1] = "indent"} =
                  {<<"indent",
                     IF graph.detailsLevel = "high"
                     THEN 4 * element.width - out.layout.pillWidth ELSE 0>>}
            /\ {kv \in edgeData[e].entries : kv[1] # "indent"}
                  = preData[e].entries
C3_Witness ==
    /\ lastEffect
    /\ graph.detailsLevel = "high"
    /\ sizes.text.measured
    /\ out.layout.pillWidth > 0
    /\ \E e \in Edges : preData[e].entries # {}
    /\ \E e \in Edges : preData[e].entries = {}

PillDetails ==
    {"rect", "text", "badge", "lead", "taskIcon", "action", "context",
     "children"}
CollapsedForm ==
    /\ out.kind = "collapsed"
    /\ "circle" \in out.parts
    /\ out.radius2 = props.statusIconSize + 8
    /\ out.upScale.num * graph.scale.num = out.upScale.den * graph.scale.den
    /\ out.parts \cap PillDetails = {}
FullPill == out.kind = "pill" /\ {"rect", "text"} \subseteq out.parts

\* C4 as claimed: hideDetailsAtMedium and a details level other than high
\* give the collapsed form; level high gives the full pill.
C4_Original ==
    Mounted =>
        /\ (props.hideDetailsAtMedium /\ graph.detailsLevel # "high")
              => CollapsedForm
        /\ graph.detailsLevel = "high" => FullPill

\* C4 as amended: when showStatusState is true, scaleNode is not set,
\* hideDetailsAtMedium is set and the details level is not high, the node is
\* rendered collapsed (a circle of radius statusIconSize / 2 + 4 scaled by
\* 1 / scale, none of the pill's details); at level high the full pill is
\* rendered.
C4_Collapse ==
    Mounted =>
        /\ (/\ props.showStatusState
            /\ ~props.scaleNode
            /\ props.hideDetailsAtMedium
            /\ graph.detailsLevel # "high") => CollapsedForm
        /\ graph.detailsLevel = "high" => FullPill
C4_Witness ==
    /\ Mounted
    /\ props.hideDetailsAtMedium
    /\ graph.detailsLevel = "medium"
    /\ graph.scale # One
    /\ sizes.text.measured
    /\ out.kind = "collapsed"

ShownStatuses ==
    IF props.hiddenDetailsShownStatuses.kind = "undefined"
    THEN {"Failed", "FailedToStart", "Cancelled"}
    ELSE props.hiddenDetailsShownStatuses.items

\* C5 as claimed: collapsed, the status icon is drawn iff status is set and
\* is a member of hiddenDetailsShownStatuses (default Failed, FailedToStart,
\* Cancelled).
C5_Original ==
    (Mounted /\ out.kind = "collapsed") =>
        ("status" \in out.parts <=>
            Truthy(props.status) /\ props.status \in ShownStatuses)

\* C5 as amended: collapsed, the status icon is drawn iff status is set and
\* hiddenDetailsShownStatuses either is null or has status as a member (its
\* default being Failed, FailedToStart, Cancelled); otherwise only the bare
\* circle is drawn.
C5_HiddenStatus ==
    (Mounted /\ out.kind = "collapsed") =>
        /\ "circle" \in out.parts
        /\ out.parts \subseteq {"circle", "status"}
        /\ "status" \in out.parts <=>
              /\ Truthy(props.status)
              /\ \/ props.hiddenDetailsShownStatuses.kind = "null"
                 \/ props.status \in ShownStatuses
C5_Witness ==
    /\ Mounted
    /\ out.kind = "collapsed"
    /\ props.status = "Failed"
    /\ props.hiddenDetailsShownStatuses = HdssUndefined
    /\ out.parts = {"circle", "status"}

\* C6: in the pill, a present badge is wrapped in a Tooltip when
\* badgeTooltip is set (also when badgePopoverParams is set), in a Popover
\* when only badgePopoverParams is set, and is bare with neither; without a
\* badge no badge, tooltip or popover is rendered.
C6_BadgeWrapper ==
    Mounted =>
        /\ out.badgeComponent = "popover" => ~Truthy(props.badgeTooltip)
        /\ ~Truthy(props.badge) =>
              out.badgeComponent = "none" /\ "badge" \notin out.parts
        /\ (out.kind = "pill" /\ Truthy(props.badge)) =>
              /\ "badge" \in out.parts
              /\ out.badgeComponent =
                    IF Truthy(props.badgeTooltip) THEN "tooltip"
                    ELSE IF Truthy(props.badgePopoverParams) THEN "popover"
                    ELSE "bare"
C6_Witness ==
    /\ Mounted
    /\ Truthy(props.badge)
    /\ Truthy(props.badgeTooltip)
    /\ Truthy(props.badgePopoverParams)
    /\ sizes.badge.measured
    /\ out.badgeComponent = "tooltip"

\* C7: in every render the memoized layout values are the ones the layout
\* pass yields on that render's props and sizes, and all ten are 0 while the
\* text has not been measured.
C7_MemoFresh ==
    Mounted =>
        /\ out.layout = Layout(TaskNodeDefaults(props), sizes)
        /\ memo.value = out.layout
        /\ ~sizes.text.measured => out.layout = ZeroLayout
C7_Witness ==
    /\ Mounted
    /\ sizes.text.measured
    /\ sizes.badge.measured
    /\ ~Truthy(props.badge)
    /\ Changed(props) = MaxChanged
    /\ out.layout.pillWidth > 0

====
